---- MODULE Spec2Model ----
(***************************************************************************)
(* Model of nonebot_plugin_imageutils: font fallback selection (fonts.py), *)
(* the text layout engine Char / Line / Text2Image with its BBCode parser  *)
(* (text2image.py) and BuildImage.draw_text (build_image.py).              *)
(*                                                                         *)
(* Python strings are modelled as sequences of one-character strings, so   *)
(* that the regular expressions of the parser work on character indexes.   *)
(* Metrics are exact rationals with the common denominator MetricDen: the  *)
(* Python code computes them as floats (fontsize / valid_size).            *)
(*                                                                         *)
(* text2image.py calls get_proper_font(char, bold, fontname,               *)
(* fallback_fonts) positionally, while fonts.py declares (char, style,     *)
(* weight, fontname, fallback_fonts).  The model binds the arguments by    *)
(* their role: bold selects the weight, fontname is the preferred font and *)
(* fallback_fonts the fallback list.                                       *)
(***************************************************************************)
EXTENDS Integers, Sequences, FiniteSets, TLC

\* nwrap counts the wrap calls made on text2img since it was built
VARIABLES default_fallback_fonts, text2img, nwrap, image, call

vars == <<default_fallback_fonts, text2img, nwrap, image, call>>

----------------------------------------------------------------------------
(* Bounds of the model *)

MaxTextLen == 3
MaxFontSize == 2
MaxWrapWidth == 5
MaxFallbackLen == 5
MaxWraps == 2

----------------------------------------------------------------------------
(* Generic helpers *)

SetMin(S) == CHOOSE x \in S : \A y \in S : x <= y
SetMax(S) == CHOOSE x \in S : \A y \in S : x >= y

RECURSIVE SeqSum(_)
SeqSum(s) == IF s = <<>> THEN 0 ELSE Head(s) + SeqSum(Tail(s))

SeqMax(s) == SetMax({s[i] : i \in 1..Len(s)})

\* Python slice s[a:b] with 0 <= a, 0-based, end exclusive
Slice(s, a, b) == SubSeq(s, a + 1, IF b > Len(s) THEN Len(s) ELSE b)

RECURSIVE Flatten(_)
Flatten(ss) == IF ss = <<>> THEN <<>> ELSE Head(ss) \o Flatten(Tail(ss))

\* all sequences over S of length 0..n
SeqsUpTo(S, n) == UNION {[1..k -> S] : k \in 0..n}

\* the element of a set of one element
Only(S) == CHOOSE x \in S : TRUE

\* Convention: LET With_x(x) == body IN With_x(value) binds the value to x in
\* body, as an assignment to a local variable of the code does.

----------------------------------------------------------------------------
(* Strings used as values *)

S_left == <<"l", "e", "f", "t">>
S_right == <<"r", "i", "g", "h", "t">>
S_center == <<"c", "e", "n", "t", "e", "r">>
S_black == <<"b", "l", "a", "c", "k">>
S_red == <<"r", "e", "d">>
S_empty == <<>>

FontA == <<"a", ".", "t", "t", "f">>
FontB == <<"b", ".", "t", "t", "f">>
FontNoto == <<"N", "o", "t", "o", " ", "C", "o", "l", "o", "r", " ", "E", "m", "o", "j", "i">>
FontApple == <<"A", "p", "p", "l", "e", " ", "C", "o", "l", "o", "r", " ", "E", "m", "o", "j", "i">>

----------------------------------------------------------------------------
(* fonts.py: Font, Font.find, Font.has_char, Font.load_font *)

NotoValidSize == 109
AppleValidSize == 137

\* common denominator of all metrics
MetricDen == NotoValidSize * AppleValidSize

\* characters no installed font has a glyph for
NoGlyphChars == {"^"}
\* characters only the colour emoji fonts have
EmojiChars == {"@"}
\* characters only font B has, of the scalable fonts
WideChars == {"W"}

Font(family, path, valid_size) ==
    [family |-> family, path |-> path, valid_size |-> valid_size]

find_special_font(family) ==
    IF family = FontApple THEN Font("Apple Color Emoji", <<"AppleColorEmoji.ttf", "normal">>, AppleValidSize)
    ELSE IF family = FontNoto THEN Font("Noto Color Emoji", <<"NotoColorEmoji.ttf", "normal">>, NotoValidSize)
    ELSE [family |-> "", path |-> <<>>, valid_size |-> 0]

\* font_manager.findfont falls back to its default font for unknown families
Find(family, style, weight) ==
    LET With_special(special) ==
        IF special.family # "" THEN special
        ELSE IF family = FontB THEN Font("B", <<"b.ttf", weight>>, 0)
        ELSE IF family = FontA THEN Font("A", <<"a.ttf", weight>>, 0)
        ELSE Font("DejaVu Sans", <<"DejaVuSans.ttf", weight>>, 0)
    IN With_special(find_special_font(family))

has_char(font, char) ==
    IF char \in NoGlyphChars THEN FALSE
    ELSE IF font.valid_size # 0 THEN char \in EmojiChars
    ELSE IF font.family = "B" THEN char \notin EmojiChars
    ELSE char \notin (EmojiChars \cup WideChars)

\* ImageFont.truetype(path, fontsize): the loaded font with the metrics PIL
\* reads from it: getmetrics() and getsize(char, stroke_width)
load_font(font, fontsize) == [path |-> font.path, size |-> fontsize]

IsBoldPath(path) == path[2] = "bold"

\* (ascent, descent); those of the colour emoji fonts are not multiples of the
\* size, so that scaling them by fontsize / valid_size leaves fractions
getmetrics(pilfont) ==
    IF pilfont.path[1] = "b.ttf" THEN <<3 * pilfont.size, 2 * pilfont.size>>
    ELSE IF pilfont.path[1] \in {"NotoColorEmoji.ttf", "AppleColorEmoji.ttf"}
         THEN <<pilfont.size - 8, pilfont.size \div 4>>
    ELSE <<2 * pilfont.size, pilfont.size>>

getsize(pilfont, char, stroke_width) ==
    LET unit == IF char \in {"i", "[", "]", "/"} THEN 1
                ELSE IF char \in WideChars THEN 3
                ELSE 2
        bold == IF IsBoldPath(pilfont.path) THEN 1 ELSE 0
        m == getmetrics(pilfont)
        advance == IF pilfont.path[1] \in {"NotoColorEmoji.ttf", "AppleColorEmoji.ttf"}
                   THEN pilfont.size + pilfont.size \div 4
                   ELSE (unit + bold) * pilfont.size
    IN <<advance + 2 * stroke_width, m[1] + m[2] + 2 * stroke_width>>

----------------------------------------------------------------------------
(* fonts.py: get_proper_font *)

RECURSIVE ProperFontLoop(_, _, _, _, _, _)
ProperFontLoop(char, style, weight, fallback_fonts, i, checked_fonts) ==
    IF i > Len(fallback_fonts) THEN Find(fallback_fonts[1], style, weight)
    ELSE LET With_font(font) ==
         IF font.family \notin checked_fonts /\ has_char(font, char) THEN font
         ELSE ProperFontLoop(char, style, weight, fallback_fonts, i + 1, checked_fonts)
         IN With_font(Find(fallback_fonts[i], style, weight))

\* fonts is the pair of list objects the call can reach: fonts.arg is the
\* caller's fallback_fonts list, fonts.dflt the configured default list.
\* `fallback_fonts or default` aliases one of them and insert(0, fontname)
\* changes that list in place.
get_proper_font(char, style, weight, fontname, fonts) ==
    LET useArg == fonts.arg # <<>>
        base == IF useArg THEN fonts.arg ELSE fonts.dflt
        fallback_fonts == IF fontname # S_empty THEN <<fontname>> \o base ELSE base
    IN [font |-> ProperFontLoop(char, style, weight, fallback_fonts, 1, {}),
        fonts |-> IF useArg THEN [arg |-> fallback_fonts, dflt |-> fonts.dflt]
                  ELSE [arg |-> fonts.arg, dflt |-> fallback_fonts]]

DefaultFallbackFonts == <<FontA, FontB, FontNoto>>

----------------------------------------------------------------------------
(* text2image.py: Char *)

\* Char with every font loaded at the requested size
CharAtFontsize(char, font, fontsize, fill, stroke_width) ==
    LET With_pilfont(pilfont) ==
        [char |-> char, font |-> font, fontsize |-> fontsize, fill |-> fill,
         stroke_width |-> stroke_width, pilfont |-> pilfont,
         ascent |-> getmetrics(pilfont)[1] * MetricDen,
         descent |-> getmetrics(pilfont)[2] * MetricDen,
         width |-> getsize(pilfont, char, stroke_width)[1] * MetricDen,
         height |-> getsize(pilfont, char, stroke_width)[2] * MetricDen]
    IN With_pilfont(load_font(font, fontsize))

Char(char, font, fontsize, fill, stroke_width) ==
    LET loaded == IF font.valid_size # 0 THEN font.valid_size ELSE fontsize
        pilfont == load_font(font, loaded)
        m == getmetrics(pilfont)
        sz == getsize(pilfont, char, stroke_width)
        \* ratio = fontsize / valid_size, as a multiple of 1 / MetricDen
        ratio == IF font.valid_size # 0
                 THEN fontsize * (MetricDen \div font.valid_size)
                 ELSE MetricDen
    IN [char |-> char, font |-> font, fontsize |-> fontsize, fill |-> fill,
        stroke_width |-> stroke_width, pilfont |-> pilfont,
        ascent |-> m[1] * ratio, descent |-> m[2] * ratio,
        width |-> sz[1] * ratio, height |-> sz[2] * ratio]

----------------------------------------------------------------------------
(* text2image.py: Line *)

Line(chars, align) == [chars |-> chars, align |-> align]

LineWidth(line) ==
    IF line.chars = <<>> THEN 0
    ELSE SeqSum([i \in 1..Len(line.chars) |-> line.chars[i].width])

LineHeight(line) ==
    IF line.chars = <<>> THEN 0
    ELSE SeqMax([i \in 1..Len(line.chars) |-> line.chars[i].height])

LineAscent(line) ==
    IF line.chars = <<>> THEN 0
    ELSE SeqMax([i \in 1..Len(line.chars) |-> line.chars[i].ascent])

LineDescent(line) ==
    IF line.chars = <<>> THEN 0
    ELSE SeqMax([i \in 1..Len(line.chars) |-> line.chars[i].descent])

\* the loop of Line.wrap; out is the sequence of Lines yielded so far
RECURSIVE WrapLoop(_, _, _, _, _)
WrapLoop(line, width, idx, last_idx, out) ==
    IF idx >= Len(line.chars)
    THEN Append(out, Line(Slice(line.chars, last_idx, Len(line.chars)), line.align))
    ELSE IF LineWidth(Line(Slice(line.chars, last_idx, idx + 1), S_left)) > width * MetricDen
         THEN WrapLoop(line, width, idx + 1, idx,
                       Append(out, Line(Slice(line.chars, last_idx, idx), line.align)))
         ELSE WrapLoop(line, width, idx + 1, last_idx, out)

\* variants of the loop of Line.wrap, used to test the properties below:
\*   "overflow": the candidate is emitted after the character that overflows it
\*   "late":     the test looks at the candidate without the next character
\*   "nonempty": the final candidate is emitted only when it has characters
\*   "eager":    the candidate is emitted as soon as it is as wide as the width
\*   "trailing": an empty Line is emitted after the final candidate
RECURSIVE WrapLoopVariant(_, _, _, _, _, _)
WrapLoopVariant(mode, line, width, idx, last_idx, out) ==
    LET n == Len(line.chars)
        tested == IF mode = "late" THEN Slice(line.chars, last_idx, idx)
                  ELSE Slice(line.chars, last_idx, idx + 1)
        cut == IF mode = "overflow" THEN idx + 1 ELSE idx
    IN IF idx >= n
       THEN IF mode = "nonempty" /\ last_idx >= n THEN out
            ELSE IF mode = "trailing" /\ n > 0
                 THEN Append(Append(out, Line(Slice(line.chars, last_idx, n), line.align)),
                             Line(<<>>, line.align))
            ELSE Append(out, Line(Slice(line.chars, last_idx, n), line.align))
       ELSE IF \/ LineWidth(Line(tested, S_left)) > width * MetricDen
               \/ mode = "eager" /\ LineWidth(Line(tested, S_left)) = width * MetricDen
            THEN WrapLoopVariant(mode, line, width, idx + 1, cut,
                                 Append(out, Line(Slice(line.chars, last_idx, cut), line.align)))
            ELSE WrapLoopVariant(mode, line, width, idx + 1, last_idx, out)

LineWrapOverflow(line, width) == WrapLoopVariant("overflow", line, width, 0, 0, <<>>)
LineWrapLate(line, width) == WrapLoopVariant("late", line, width, 0, 0, <<>>)
LineWrapNonEmpty(line, width) == WrapLoopVariant("nonempty", line, width, 0, 0, <<>>)
LineWrapEager(line, width) == WrapLoopVariant("eager", line, width, 0, 0, <<>>)
LineWrapTrailing(line, width) == WrapLoopVariant("trailing", line, width, 0, 0, <<>>)

LineWrap(line, width) == WrapLoop(line, width, 0, 0, <<>>)

----------------------------------------------------------------------------
(* text2image.py: Text2Image *)

Text2Image(lines, spacing) == [lines |-> lines, spacing |-> spacing]

\* the loop of Text2Image.from_text; st carries lines, chars and the font lists
RECURSIVE FromTextLoop(_, _, _, _, _, _, _, _, _)
FromTextLoop(text, i, fontsize, bold, fill, align, stroke_width, fontname, st) ==
    IF i > Len(text)
    THEN [lines |-> IF st.chars # <<>> THEN Append(st.lines, Line(st.chars, align))
                    ELSE st.lines,
          fonts |-> st.fonts]
    ELSE IF text[i] = "\n"
         THEN FromTextLoop(text, i + 1, fontsize, bold, fill, align, stroke_width, fontname,
                           [lines |-> Append(st.lines, Line(st.chars, align)),
                            chars |-> <<>>, fonts |-> st.fonts])
         ELSE LET With_r(r) ==
              FromTextLoop(text, i + 1, fontsize, bold, fill, align, stroke_width, fontname,
                           [lines |-> st.lines,
                            chars |-> Append(st.chars,
                                Char(text[i], r.font, fontsize, fill, stroke_width)),
                            fonts |-> r.fonts])
              IN With_r(get_proper_font(text[i], "normal", IF bold THEN "bold" ELSE "normal",
                                   fontname, st.fonts))

from_text(text, fontsize, bold, fill, spacing, align, stroke_width, fontname, fonts) ==
    LET With_r(r) == [t2i |-> Text2Image(r.lines, spacing), fonts |-> r.fonts]
    IN With_r(FromTextLoop(text, 1, fontsize, bold, fill, align, stroke_width, fontname,
                      [lines |-> <<>>, chars |-> <<>>, fonts |-> fonts]))

T2IWidth(t2i) ==
    IF t2i.lines = <<>> THEN 0
    ELSE SeqMax([i \in 1..Len(t2i.lines) |-> LineWidth(t2i.lines[i])])

\* the height without the descent of the last line
T2IHeightNoDescent(t2i) ==
    IF t2i.lines = <<>> THEN 0
    ELSE SeqSum([i \in 1..Len(t2i.lines) |-> LineAscent(t2i.lines[i])])
         + t2i.spacing * MetricDen * (Len(t2i.lines) - 1)

T2IHeight(t2i) ==
    IF t2i.lines = <<>> THEN 0
    ELSE SeqSum([i \in 1..Len(t2i.lines) |-> LineAscent(t2i.lines[i])])
         + LineDescent(t2i.lines[Len(t2i.lines)])
         + t2i.spacing * MetricDen * (Len(t2i.lines) - 1)

\* the Lines each source line yields, in order
WrapParts(t2i, width) == [i \in 1..Len(t2i.lines) |-> LineWrap(t2i.lines[i], width)]

T2IWrap(t2i, width) == Text2Image(Flatten(WrapParts(t2i, width)), t2i.spacing)

\* int(n / d): Python's int() truncates towards zero
Trunc(n, d) == IF n >= 0 THEN n \div d ELSE -((-n) \div d)

\* Char.draw_on(img, pos): what is drawn; a fixed-size font is drawn at its
\* valid size on an image of the raw size, which is resized and pasted
draw_on(char, pos) ==
    [char |-> char.char, pos |-> pos, pilfont |-> char.pilfont, fill |-> char.fill,
     raw |-> IF char.font.valid_size # 0
             THEN <<Trunc(char.width * char.font.valid_size, char.fontsize * MetricDen),
                    Trunc(char.height * char.font.valid_size, char.fontsize * MetricDen)>>
             ELSE <<>>,
     resized |-> IF char.font.valid_size # 0
                 THEN <<Trunc(char.width, MetricDen), Trunc(char.height, MetricDen)>>
                 ELSE <<>>]

\* the characters of one line drawn from k on; x2 is x as a multiple of
\* 1 / (2 * MetricDen), top a multiple of 1 / MetricDen
\* to_image's loop over the characters with x advancing by half the width
RECURSIVE DrawCharsHalf(_, _, _, _)
DrawCharsHalf(line, k, x2, top) ==
    IF k > Len(line.chars) THEN <<>>
    ELSE LET char == line.chars[k]
             y == top + LineAscent(line) - char.ascent
         IN <<draw_on(char, <<Trunc(x2, 2 * MetricDen), Trunc(y, MetricDen)>>)>>
                \o DrawCharsHalf(line, k + 1, x2 + char.width, top)

RECURSIVE DrawChars(_, _, _, _)
DrawChars(line, k, x2, top) ==
    IF k > Len(line.chars) THEN <<>>
    ELSE LET char == line.chars[k]
             y == top + LineAscent(line) - char.ascent
         IN <<draw_on(char, <<Trunc(x2, 2 * MetricDen), Trunc(y, MetricDen)>>)>>
                \o DrawChars(line, k + 1, x2 + 2 * char.width, top)

\* to_image's loop over the lines with the top advancing by the ascent only
RECURSIVE DrawLinesNoSpacing(_, _, _, _)
DrawLinesNoSpacing(t2i, i, padding, top) ==
    IF i > Len(t2i.lines) THEN <<>>
    ELSE LET line == t2i.lines[i]
             slack == T2IWidth(t2i) - LineWidth(line)
             left2 == 2 * MetricDen * padding[1]
                        + (IF line.align = S_center THEN slack
                           ELSE IF line.align = S_right THEN 2 * slack
                           ELSE 0)
         IN DrawChars(line, 1, left2, top)
                \o DrawLinesNoSpacing(t2i, i + 1, padding, top + LineAscent(line))

RECURSIVE DrawLines(_, _, _, _)
DrawLines(t2i, i, padding, top) ==
    IF i > Len(t2i.lines) THEN <<>>
    ELSE LET line == t2i.lines[i]
             slack == T2IWidth(t2i) - LineWidth(line)
             left2 == 2 * MetricDen * padding[1]
                        + (IF line.align = S_center THEN slack
                           ELSE IF line.align = S_right THEN 2 * slack
                           ELSE 0)
         IN DrawChars(line, 1, left2, top)
                \o DrawLines(t2i, i + 1, padding,
                             top + LineAscent(line) + t2i.spacing * MetricDen)

\* to_image with the padding added on one side only
to_imageOneSided(t2i, bg_color, padding) ==
    [size |-> <<Trunc(T2IWidth(t2i) + padding[1] * MetricDen, MetricDen),
                Trunc(T2IHeight(t2i) + padding[2] * MetricDen, MetricDen)>>,
     bg_color |-> bg_color,
     drawn |-> DrawLines(t2i, 1, padding, padding[2] * MetricDen)]

to_image(t2i, bg_color, padding) ==
    [size |-> <<Trunc(T2IWidth(t2i) + 2 * padding[1] * MetricDen, MetricDen),
                Trunc(T2IHeight(t2i) + 2 * padding[2] * MetricDen, MetricDen)>>,
     bg_color |-> bg_color,
     drawn |-> DrawLines(t2i, 1, padding, padding[2] * MetricDen)]

----------------------------------------------------------------------------
(* build_image.py: BuildImage.draw_text *)

\* BuildImage.paste(img, pos, alpha=True) on the image, a base with the
\* sequence of what was pasted on it
paste(img, pasted, pos) == Append(img, [img |-> pasted, pos |-> pos])

\* draw_text: the layout is wrapped when it is wider than the region
FitWidth(t2i, width) ==
    LET With_text_w(text_w) ==
        IF text_w > width * MetricDen THEN T2IWrap(t2i, width) ELSE t2i
    IN With_text_w(T2IWidth(t2i))

\* variant of the loop of draw_text that gives up without trying min_fontsize
RECURSIVE DrawTextLoopEarly(_, _, _, _)
DrawTextLoopEarly(a, fontsize, fonts, tried) ==
    LET With_r(r) ==
    LET With_t2i(t2i) ==
    LET With_text_h(text_h) ==
        IF text_h > (a.xy[4] - a.xy[2]) * MetricDen
        THEN IF fontsize - 1 <= a.min_fontsize
             THEN [raised |-> TRUE, fonts |-> r.fonts, tried |-> Append(tried, fontsize)]
             ELSE DrawTextLoopEarly(a, fontsize - 1, r.fonts, Append(tried, fontsize))
        ELSE [raised |-> FALSE, fonts |-> r.fonts, tried |-> Append(tried, fontsize),
              fontsize |-> fontsize, text2img |-> t2i,
              text_w |-> T2IWidth(t2i), text_h |-> text_h]
    IN With_text_h(T2IHeight(t2i))
    IN With_t2i(FitWidth(r.t2i, a.xy[3] - a.xy[1]))
    IN With_r(from_text(a.text, fontsize, a.bold, a.fill, a.spacing, a.lines_align,
                   Trunc(fontsize * a.stroke_ratio[1], a.stroke_ratio[2]),
                   a.fontname, [arg |-> a.fallback_fonts, dflt |-> fonts.dflt]))

\* the while loop of draw_text; a holds the arguments, tried the font sizes
\* a layout was made for
\* variant of the loop of draw_text that goes down two sizes at a time
RECURSIVE DrawTextLoopByTwo(_, _, _, _)
DrawTextLoopByTwo(a, fontsize, fonts, tried) ==
    LET With_r(r) ==
    LET With_t2i(t2i) ==
    LET With_text_h(text_h) ==
        IF text_h > (a.xy[4] - a.xy[2]) * MetricDen
        THEN IF fontsize - 2 < a.min_fontsize
             THEN [raised |-> TRUE, fonts |-> r.fonts, tried |-> Append(tried, fontsize)]
             ELSE DrawTextLoopByTwo(a, fontsize - 2, r.fonts, Append(tried, fontsize))
        ELSE [raised |-> FALSE, fonts |-> r.fonts, tried |-> Append(tried, fontsize),
              fontsize |-> fontsize, text2img |-> t2i,
              text_w |-> T2IWidth(t2i), text_h |-> text_h]
    IN With_text_h(T2IHeight(t2i))
    IN With_t2i(FitWidth(r.t2i, a.xy[3] - a.xy[1]))
    IN With_r(from_text(a.text, fontsize, a.bold, a.fill, a.spacing, a.lines_align,
                   Trunc(fontsize * a.stroke_ratio[1], a.stroke_ratio[2]),
                   a.fontname, [arg |-> a.fallback_fonts, dflt |-> fonts.dflt]))

RECURSIVE DrawTextLoop(_, _, _, _)
DrawTextLoop(a, fontsize, fonts, tried) ==
    LET With_r(r) ==
    LET With_t2i(t2i) ==
    LET With_text_h(text_h) ==
        IF text_h > (a.xy[4] - a.xy[2]) * MetricDen
        THEN IF fontsize - 1 < a.min_fontsize
             THEN [raised |-> TRUE, fonts |-> r.fonts, tried |-> Append(tried, fontsize)]
             ELSE DrawTextLoop(a, fontsize - 1, r.fonts, Append(tried, fontsize))
        ELSE [raised |-> FALSE, fonts |-> r.fonts, tried |-> Append(tried, fontsize),
              fontsize |-> fontsize, text2img |-> t2i,
              text_w |-> T2IWidth(t2i), text_h |-> text_h]
    IN With_text_h(T2IHeight(t2i))
    IN With_t2i(FitWidth(r.t2i, a.xy[3] - a.xy[1]))
    IN With_r(from_text(a.text, fontsize, a.bold, a.fill, a.spacing, a.lines_align,
                   Trunc(fontsize * a.stroke_ratio[1], a.stroke_ratio[2]),
                   a.fontname, [arg |-> a.fallback_fonts, dflt |-> fonts.dflt]))

\* draw_text: the outcome of the loop and, when the text fits, the image
\* with the text pasted at the aligned position
draw_text(img, a, fonts) ==
    LET With_r(r) ==
        IF r.raised THEN [image |-> img, result |-> r]
        ELSE LET xslack == (a.xy[3] - a.xy[1]) * MetricDen - r.text_w
                 yslack == (a.xy[4] - a.xy[2]) * MetricDen - r.text_h
                 x2 == 2 * MetricDen * a.xy[1]
                         + (IF a.halign = S_center THEN xslack
                            ELSE IF a.halign = S_right THEN 2 * xslack ELSE 0)
                 y2 == 2 * MetricDen * a.xy[2]
                         + (IF a.valign = "center" THEN yslack
                            ELSE IF a.valign = "bottom" THEN 2 * yslack ELSE 0)
             IN [image |-> paste(img, to_image(r.text2img, "", <<0, 0>>),
                                 <<Trunc(x2, 2 * MetricDen), Trunc(y2, 2 * MetricDen)>>),
                 result |-> r]
    IN With_r(DrawTextLoop(a, a.max_fontsize, fonts, <<>>))

----------------------------------------------------------------------------
(* text2image.py: from_bbcode_text, the tag regular expressions            *)
(* "[type=param]" or "[type]", any content (greedy, newlines included),     *)
(* "[/type]".                                                               *)
(* Offsets are 0-based, as in the code.                                     *)

T_align == <<"a", "l", "i", "g", "n">>
T_color == <<"c", "o", "l", "o", "r">>
T_font == <<"f", "o", "n", "t">>
T_size == <<"s", "i", "z", "e">>
T_b == <<"b">>

\* the names of PIL.ImageColor.colormap the model knows
ColorMap == <<S_black, S_red>>

HexDigits == {"0", "1", "2", "3", "4", "5", "6", "7", "8", "9",
              "a", "b", "c", "d", "e", "f", "A", "B", "C", "D", "E", "F"}
Digits == {"0", "1", "2", "3", "4", "5", "6", "7", "8", "9"}
Spaces == {" ", "\n"}
FontExts == << <<".", "t", "t", "f">>, <<".", "t", "t", "c">>,
               <<".", "o", "t", "f">>, <<".", "f", "n", "t">> >>

\* the literal lit stands in text at offset i
LitAt(text, i, lit) ==
    /\ i + Len(lit) <= Len(text)
    /\ \A k \in 1..Len(lit) : text[i + k] = lit[k]

\* length of the longest run of characters of text from offset i that are
\* in (inside = TRUE) or not in (inside = FALSE) the set S
RunLen(text, i, S, inside) ==
    SetMin({n \in 0..(Len(text) - i) :
                i + n >= Len(text) \/ ((text[i + n + 1] \in S) # inside)})

\* the split_text partials: tag type, has_param and the kind of param_pattern
Kind(type, has_param, pattern) ==
    [type |-> type, has_param |-> has_param, pattern |-> pattern]

K_align == Kind(T_align, TRUE, "align")
K_color == Kind(T_color, TRUE, "color")
K_font == Kind(T_font, TRUE, "font")
K_size == Kind(T_size, TRUE, "size")
K_bold == Kind(T_b, FALSE, "")

OpenHead(kind) == <<"[">> \o kind.type \o (IF kind.has_param THEN <<"=">> ELSE <<>>)
CloseTag(kind) == <<"[", "/">> \o kind.type \o <<"]">>

\* The offsets at which the param group can end when it starts at p0, in the
\* order in which the backtracking matcher tries them: alternatives left to
\* right, greedy repetitions longest first.
ParamEnds(kind, text, p0) ==
    IF ~kind.has_param THEN <<p0>>
    ELSE IF kind.pattern = "align"
    THEN LET alts == SelectSeq(<<S_left, S_right, S_center>>,
                               LAMBDA a : LitAt(text, p0, a))
         IN [k \in 1..Len(alts) |-> p0 + Len(alts[k])]
    ELSE IF kind.pattern = "color"
    \* rf"#[a-fA-F0-9]{6}|{colors}": inside the f-string {6} is the text 6
    THEN LET hex == IF /\ LitAt(text, p0, <<"#">>)
                       /\ p0 + 3 <= Len(text)
                       /\ text[p0 + 2] \in HexDigits
                       /\ text[p0 + 3] = "6"
                    THEN <<p0 + 3>> ELSE <<>>
             alts == SelectSeq(ColorMap, LAMBDA a : LitAt(text, p0, a))
         IN hex \o [k \in 1..Len(alts) |-> p0 + Len(alts[k])]
    ELSE IF kind.pattern = "size"
    THEN LET n == RunLen(text, p0, Digits, TRUE)
         IN [k \in 1..n |-> p0 + n - k + 1]
    ELSE \* "font": \S+\.ttf|\S+\.ttc|\S+\.otf|\S+\.fnt
         LET n == RunLen(text, p0, Spaces, FALSE)
             ends(ext) == SelectSeq([k \in 1..n |-> p0 + n - k + 1],
                                    LAMBDA q : LitAt(text, q, ext))
             shift(qs) == [k \in 1..Len(qs) |-> qs[k] + 4]
         IN shift(ends(FontExts[1])) \o shift(ends(FontExts[2]))
                \o shift(ends(FontExts[3])) \o shift(ends(FontExts[4]))

\* offsets c >= from at which the closing tag stands
CloseOffsets(kind, text, from) ==
    {c \in from..Len(text) : LitAt(text, c, CloseTag(kind))}

NoMatch == [ok |-> FALSE]

\* variant of MatchAt in which a tag that is never closed spans the rest of
\* the text
MatchAtUnclosed(kind, text, s) ==
    IF ~LitAt(text, s, OpenHead(kind)) THEN NoMatch
    ELSE LET With_p0(p0) ==
         LET With_ends(ends) ==
             IF ends = <<>> THEN NoMatch
             ELSE LET With_closes(closes) ==
                  LET With_c(c) ==
                      [ok |-> TRUE, param |-> Slice(text, p0, ends[1]),
                       tag_start |-> s, content_start |-> ends[1] + 1,
                       content_end |-> c,
                       tag_end |-> IF closes = {} THEN c ELSE c + Len(CloseTag(kind))]
                  IN With_c(IF closes = {} THEN Len(text) ELSE SetMax(closes))
                  IN With_closes(CloseOffsets(kind, text, ends[1] + 1))
         IN With_ends(SelectSeq(ParamEnds(kind, text, p0), LAMBDA e : LitAt(text, e, <<"]">>)))
         IN With_p0(s + Len(OpenHead(kind)))

\* the match of the tag pattern that starts at offset s, if there is one
MatchAt(kind, text, s) ==
    IF ~LitAt(text, s, OpenHead(kind)) THEN NoMatch
    ELSE LET With_p0(p0) ==
         LET With_ends(ends) ==
             IF ends = <<>> THEN NoMatch
             \* .* is greedy: the content runs to the last closing tag
             ELSE LET With_c(c) ==
                      [ok |-> TRUE, param |-> Slice(text, p0, ends[1]),
                       tag_start |-> s, content_start |-> ends[1] + 1,
                       content_end |-> c, tag_end |-> c + Len(CloseTag(kind))]
                  IN With_c(SetMax(CloseOffsets(kind, text, ends[1] + 1)))
         IN With_ends(SelectSeq(ParamEnds(kind, text, p0),
                        LAMBDA e : /\ LitAt(text, e, <<"]">>)
                                   /\ CloseOffsets(kind, text, e + 1) # {}))
         IN With_p0(s + Len(OpenHead(kind)))

\* re.finditer: the matches from offset pos on, leftmost first, not overlapping
RECURSIVE FindIter(_, _, _)
FindIter(kind, text, pos) ==
    LET With_found(found) ==
        IF found = {} THEN <<>>
        ELSE LET With_m(m) == <<m>> \o FindIter(kind, text, m.tag_end)
             IN With_m(CHOOSE m \in found : \A o \in found : m.tag_start <= o.tag_start)
    IN With_found({m \in {MatchAt(kind, text, s) : s \in pos..Len(text)} : m.ok})

Part(param, is_str, tag1_start, tag1_end, tag2_start, tag2_end) ==
    [param |-> param, is_str |-> is_str,
     tag1_start |-> tag1_start, tag1_end |-> tag1_end,
     tag2_start |-> tag2_start, tag2_end |-> tag2_end]

\* parse_tag: the parts of the tags nested in a block come before the block's
RECURSIVE parse_tag(_, _, _)
RECURSIVE ParseBlocks(_, _, _, _)
ParseBlocks(kind, text, blocks, offset) ==
    IF blocks = <<>> THEN <<>>
    ELSE LET block == Head(blocks) IN
         parse_tag(kind, Slice(text, block.content_start, block.content_end),
                   offset + block.content_start)
         \o << Part(IF kind.has_param THEN block.param ELSE TRUE, kind.has_param,
                    offset + block.tag_start, offset + block.content_start,
                    offset + block.content_end, offset + block.tag_end) >>
         \o ParseBlocks(kind, text, Tail(blocks), offset)

parse_tag(kind, text, offset) == ParseBlocks(kind, text, FindIter(kind, text, 0), offset)

split_text(kind, text, default_param) ==
    parse_tag(kind, text, 0)
        \o << Part(IF kind.has_param THEN default_param ELSE FALSE, FALSE,
                   0, 0, Len(text), Len(text)) >>

None == [none |-> TRUE]

RECURSIVE get_param(_, _)
get_param(index, parts) ==
    IF parts = <<>> THEN None
    ELSE LET p == Head(parts) IN
         IF p.tag1_start # p.tag1_end /\ p.tag1_start <= index /\ index < p.tag1_end
         THEN None
         ELSE IF p.tag2_start # p.tag2_end /\ p.tag2_start <= index /\ index < p.tag2_end
         THEN None
         ELSE IF p.tag1_end # p.tag2_start /\ p.tag1_end <= index /\ index < p.tag2_start
         THEN [none |-> FALSE, param |-> p.param, is_str |-> p.is_str]
         ELSE get_param(index, Tail(parts))

DigitVal(d) == CHOOSE n \in 0..9 : <<"0", "1", "2", "3", "4", "5", "6", "7", "8", "9">>[n + 1] = d

\* int(char_size): a tag's param is a string of digits, the default an int
RECURSIVE ParseInt(_)
ParseInt(str) ==
    IF str = <<>> THEN 0
    ELSE 10 * ParseInt(SubSeq(str, 1, Len(str) - 1)) + DigitVal(str[Len(str)])

ToInt(p) == IF p.is_str THEN ParseInt(p.param) ELSE p.param

\* char_align, char_color, char_font, char_size and char_bold of the loop
CharParams(index, parts) ==
    [align |-> get_param(index, parts.align),
     color |-> get_param(index, parts.color),
     font |-> get_param(index, parts.font),
     size |-> get_param(index, parts.size),
     bold |-> get_param(index, parts.bold)]

\* the body of the loop of from_bbcode_text for one index; st carries lines,
\* chars, last_align, the font lists and the trace of the characters kept
BBCodeStep(text, index, parts, st) ==
    LET With_p(p) ==
        IF p.align.none \/ p.color.none \/ p.font.none \/ p.size.none \/ p.bold.none
        THEN st
        ELSE LET With_seen(seen) ==
             IF seen.char = "\n"
             THEN [st EXCEPT !.lines = Append(st.lines, Line(st.chars, st.last_align)),
                             !.chars = <<>>,
                             !.kept = Append(st.kept, seen)]
             ELSE LET With_r(r) ==
                  LET With_glyph(glyph) ==
                      IF seen.align # st.last_align
                      THEN [lines |-> Append(st.lines, Line(st.chars, st.last_align)),
                            chars |-> <<glyph>>,
                            last_align |-> seen.align,
                            fonts |-> r.fonts,
                            kept |-> Append(st.kept, seen)]
                      ELSE [lines |-> st.lines,
                            chars |-> Append(st.chars, glyph),
                            last_align |-> st.last_align,
                            fonts |-> r.fonts,
                            kept |-> Append(st.kept, seen)]
                  IN With_glyph(Char(seen.char, r.font, seen.size, seen.color, 0))
                  IN With_r(get_proper_font(seen.char, "normal",
                                            IF seen.bold THEN "bold" ELSE "normal",
                                            seen.font, st.fonts))
             IN With_seen([index |-> index, char |-> text[index + 1],
                           align |-> p.align.param, color |-> p.color.param,
                           font |-> p.font.param, size |-> ToInt(p.size),
                           bold |-> p.bold.param])
    IN With_p(CharParams(index, parts))

\* the loop of from_bbcode_text over the indexes lo .. hi - 1 of
\* enumerate(text), in order: the first half of the range is run, then the
\* second half from the state the first half left, which keeps the
\* evaluation shallow on long texts
RECURSIVE BBCodeLoop(_, _, _, _, _)
BBCodeLoop(text, lo, hi, parts, st) ==
    IF hi <= lo THEN st
    ELSE IF hi = lo + 1 THEN BBCodeStep(text, lo, parts, st)
    ELSE Only({BBCodeLoop(text, (lo + hi) \div 2, hi, parts, half) :
                  half \in {BBCodeLoop(text, lo, (lo + hi) \div 2, parts, st)}})

from_bbcode_text(text, fontsize, fill, spacing, align, fontname, fonts) ==
    LET With_st(st) ==
        [t2i |-> Text2Image(IF st.chars # <<>>
                            THEN Append(st.lines, Line(st.chars, st.last_align))
                            ELSE st.lines,
                            spacing),
         fonts |-> st.fonts, kept |-> st.kept]
    IN With_st(BBCodeLoop(text, 0, Len(text),
                    [align |-> split_text(K_align, text, align),
                     color |-> split_text(K_color, text, fill),
                     font |-> split_text(K_font, text, fontname),
                     size |-> split_text(K_size, text, fontsize),
                     bold |-> split_text(K_bold, text, FALSE)],
                    [lines |-> <<>>, chars |-> <<>>, last_align |-> align,
                     fonts |-> fonts, kept |-> <<>>]))

\* text2image(text, bg_color, padding, max_width, **kwargs); max_width = 0
\* stands for None, which `if max_width:` treats alike
text2image(text, bg_color, padding, max_width, kwargs, fonts) ==
    LET With_r(r) ==
        LET With_t2i(t2i) ==
            [image |-> to_image(t2i, bg_color, padding),
             text2img |-> t2i, fonts |-> r.fonts]
        IN With_t2i(IF max_width # 0 THEN T2IWrap(r.t2i, max_width) ELSE r.t2i)
    IN With_r(from_bbcode_text(text, kwargs.fontsize, kwargs.fill, kwargs.spacing,
                               kwargs.align, kwargs.fontname, fonts))

----------------------------------------------------------------------------
(* Marked-up documents: the texts from_bbcode_text is applied to are written *)
(* from trees of characters and tag spans, so that what a text means is      *)
(* known apart from how the parser reads it.                                 *)

MaxItems == 3
MaxBody == 1
MaxNested == 2
MaxOpenLen == 3

Ch(c) == [t |-> "ch", c |-> c, k |-> "", v |-> <<>>, body |-> <<>>]
Span(o, body) == [t |-> "span", c |-> "", k |-> o[1], v |-> o[2], body |-> body]
Open(o) == [t |-> "open", c |-> "", k |-> o[1], v |-> o[2], body |-> <<>>]

Openers == {<<"align", S_center>>, <<"color", S_red>>, <<"font", FontB>>,
            <<"size", <<"2">>>>, <<"b", <<>>>>}

KindOf(k) ==
    CASE k = "align" -> K_align [] k = "color" -> K_color [] k = "font" -> K_font
      [] k = "size" -> K_size [] k = "b" -> K_bold

OpenTag(k, v) == OpenHead(KindOf(k)) \o v \o <<"]">>

RECURSIVE Serialize(_)
Serialize(items) ==
    IF items = <<>> THEN <<>>
    ELSE LET With_it(it) ==
             (CASE it.t = "ch" -> <<it.c>>
                [] it.t = "open" -> OpenTag(it.k, it.v)
                [] it.t = "span" -> OpenTag(it.k, it.v) \o Serialize(it.body)
                                        \o CloseTag(KindOf(it.k)))
             \o Serialize(Tail(items))
         IN With_it(Head(items))

Atoms == {Ch("A"), Ch("B"), Ch("\n")}
InnerAtoms == {Ch("A"), Ch("\n")}
Items1 == Atoms \cup {Span(o, b) : o \in Openers, b \in SeqsUpTo(InnerAtoms, MaxBody)}

\* "[b]A[/b]B[b]C[/b]" and "[align=center]Hi[/align]There"
ExampleBold == <<Span(<<"b", <<>>>>, <<Ch("A")>>), Ch("B"), Span(<<"b", <<>>>>, <<Ch("C")>>)>>
ExampleAlign == <<Span(<<"align", S_center>>, <<Ch("H"), Ch("i")>>),
                  Ch("T"), Ch("h"), Ch("e"), Ch("r"), Ch("e")>>

\* well formed documents: sequential spans, nested spans, the two examples
WellFormedDocs ==
    SeqsUpTo(Items1, MaxItems)
        \cup {<<Span(o, b)>> : o \in Openers, b \in SeqsUpTo(Items1, MaxNested)}
        \cup {ExampleBold, ExampleAlign}

\* documents with one opening tag that is never closed, and no other tag
DanglingDocs ==
    {d \in SeqsUpTo(Atoms \cup {Open(o) : o \in Openers}, MaxOpenLen) :
        Cardinality({i \in 1..Len(d) : d[i].t = "open"}) = 1}

----------------------------------------------------------------------------
(* State machine *)

MaxDrawFontSize == 3
DrawWidths == {1, 3, 6}
DrawHeights == {2, 6, 14}

PlainChars == {"i", "W", "\n"}
FontNames == {S_empty, FontB}
GlyphChars == {"A", "W", "^"}
UncoveredText == {"^", "\n"}
PreferredFonts == {S_empty, FontA, FontB, FontNoto}
FallbackLists == {<<>>, <<FontB, FontA>>}

Init ==
    /\ default_fallback_fonts = DefaultFallbackFonts
    /\ text2img = Text2Image(<<>>, 4)
    /\ nwrap = 0
    /\ image = <<>>
    /\ call = [op |-> "init"]

\* text2img = Text2Image.from_text(text, fontsize, fontname=fontname), for a
\* text over the given alphabet
FromTextOver(alphabet) ==
    \E text \in SeqsUpTo(alphabet, MaxTextLen), fontsize \in 1..MaxFontSize,
       fontname \in FontNames :
        \E r \in {from_text(text, fontsize, FALSE, S_black, 4, S_left, 0, fontname,
                             [arg |-> <<>>, dflt |-> default_fallback_fonts])} :
           /\ Len(r.fonts.dflt) <= MaxFallbackLen
           /\ text2img' = r.t2i
           /\ nwrap' = 0
           /\ default_fallback_fonts' = r.fonts.dflt
           /\ call' = [op |-> "from_text", text |-> text, fontsize |-> fontsize,
                       fontname |-> fontname]
           /\ UNCHANGED image

FromText == FromTextOver(PlainChars)

\* from_text on texts with characters that no font has
FromTextGlyphs == FromTextOver(UncoveredText)

\* get_proper_font(char, weight=weight, fontname=fontname,
\*                 fallback_fonts=fallback_fonts)
GetProperFont ==
    \E char \in GlyphChars, weight \in {"normal", "bold"},
       fontname \in PreferredFonts, fallback_fonts \in FallbackLists :
        \E r \in {get_proper_font(char, "normal", weight, fontname,
                                   [arg |-> fallback_fonts, dflt |-> default_fallback_fonts])} :
           /\ Len(r.fonts.dflt) <= MaxFallbackLen
           /\ default_fallback_fonts' = r.fonts.dflt
           /\ call' = [op |-> "get_proper_font", char |-> char, weight |-> weight,
                       fontname |-> fontname, fallback_fonts |-> fallback_fonts,
                       font |-> r.font]
           /\ UNCHANGED <<text2img, nwrap, image>>

\* text2img.wrap(width); prev is the width of the wrap call right before
\* this one, if that was the last call made
Wrap ==
    \E width \in 0..MaxWrapWidth :
        /\ nwrap < MaxWraps
        /\ text2img' = T2IWrap(text2img, width)
        /\ nwrap' = nwrap + 1
        /\ call' = [op |-> "wrap", width |-> width, src |-> text2img.lines,
                    parts |-> WrapParts(text2img, width),
                    prev |-> IF call.op = "wrap" THEN call.width ELSE -1]
        /\ UNCHANGED <<default_fallback_fonts, image>>

NextWrap == FromText \/ Wrap

SpecWrap == Init /\ [][NextWrap]_vars

\* the arguments of a from_bbcode_text call that is about to be made
InitBBCode(docs) ==
    /\ default_fallback_fonts = DefaultFallbackFonts
    /\ text2img = Text2Image(<<>>, 4)
    /\ nwrap = 0
    /\ image = <<>>
    /\ \E doc \in docs, align \in {S_left, S_center} :
        call = [op |-> "args", doc |-> doc, text |-> Serialize(doc), align |-> align]

\* text2img = Text2Image.from_bbcode_text(text, fontsize=1, align=align)
FromBBCode ==
    /\ call.op = "args"
    /\ \E r \in {from_bbcode_text(call.text, 1, S_black, 6, call.align, S_empty,
                                   [arg |-> <<>>, dflt |-> default_fallback_fonts])} :
          /\ text2img' = r.t2i
          /\ nwrap' = 0
          /\ default_fallback_fonts' = r.fonts.dflt
          /\ call' = [op |-> "from_bbcode_text", doc |-> call.doc, text |-> call.text,
                      align |-> call.align, kept |-> r.kept]
          /\ UNCHANGED image

SpecBB == InitBBCode(WellFormedDocs) /\ [][FromBBCode]_vars

SpecOpen == InitBBCode(DanglingDocs) /\ [][FromBBCode]_vars

\* the arguments of a draw_text call that is about to be made
InitDraw ==
    /\ default_fallback_fonts = DefaultFallbackFonts
    /\ text2img = Text2Image(<<>>, 4)
    /\ nwrap = 0
    /\ image = <<>>
    /\ \E text \in SeqsUpTo(PlainChars, MaxTextLen), w \in DrawWidths, h \in DrawHeights,
          max_fontsize \in 1..MaxDrawFontSize, min_fontsize \in 1..MaxDrawFontSize,
          fontname \in FontNames :
        call = [op |-> "draw_args",
                args |-> [xy |-> <<0, 0, w, h>>, text |-> text,
                          max_fontsize |-> max_fontsize, min_fontsize |-> min_fontsize,
                          bold |-> FALSE, fill |-> S_black, spacing |-> 4,
                          halign |-> S_center, valign |-> "center",
                          lines_align |-> S_left, stroke_ratio |-> <<0, 1>>,
                          fontname |-> fontname, fallback_fonts |-> <<>>]]

\* image.draw_text(xy, text, max_fontsize, min_fontsize, fontname=fontname)
DrawText ==
    /\ call.op = "draw_args"
    /\ \E r \in {draw_text(image, call.args,
                            [arg |-> call.args.fallback_fonts,
                             dflt |-> default_fallback_fonts])} :
          /\ image' = r.image
          /\ default_fallback_fonts' = r.result.fonts.dflt
          /\ call' = [op |-> "draw_text", args |-> call.args, result |-> r.result,
                      image_before |-> image, fonts_before |-> default_fallback_fonts]
          /\ UNCHANGED <<text2img, nwrap>>

SpecDraw == InitDraw /\ [][DrawText]_vars

NextFont == GetProperFont \/ FromTextGlyphs

SpecFont == Init /\ [][NextFont]_vars

LayoutChars == {"i", "W", "@", "\n"}
Aligns == {S_left, S_center, S_right}
StrokeWidths == {0, 1}
Paddings == {<<0, 0>>, <<1, 2>>}

\* the arguments of a from_text call that is about to be made
InitLayout ==
    /\ default_fallback_fonts = DefaultFallbackFonts
    /\ text2img = Text2Image(<<>>, 4)
    /\ nwrap = 0
    /\ image = <<>>
    /\ \E text \in SeqsUpTo(LayoutChars, MaxTextLen), fontsize \in 1..MaxFontSize,
          align \in Aligns, stroke_width \in StrokeWidths :
        call = [op |-> "layout_args", text |-> text, fontsize |-> fontsize,
                align |-> align, stroke_width |-> stroke_width]

\* text2img = Text2Image.from_text(text, fontsize, spacing=1, align=align,
\*                                 stroke_width=stroke_width)
FromTextStyled ==
    /\ call.op = "layout_args"
    /\ \E r \in {from_text(call.text, call.fontsize, FALSE, S_black, 1, call.align,
                            call.stroke_width, S_empty,
                            [arg |-> <<>>, dflt |-> default_fallback_fonts])} :
          /\ text2img' = r.t2i
          /\ nwrap' = 0
          /\ default_fallback_fonts' = r.fonts.dflt
          /\ call' = [op |-> "from_text_styled", text |-> call.text,
                      fontsize |-> call.fontsize, align |-> call.align,
                      stroke_width |-> call.stroke_width]
          /\ UNCHANGED image

\* w, h = text2img.width, text2img.height
Measure ==
    /\ call.op # "layout_args"
    /\ call' = [op |-> "measure", width |-> T2IWidth(text2img),
                height |-> T2IHeight(text2img)]
    /\ UNCHANGED <<default_fallback_fonts, text2img, nwrap, image>>

\* img = text2img.to_image("white", padding)
ToImage ==
    /\ call.op # "layout_args"
    /\ \E padding \in Paddings :
          call' = [op |-> "to_image", padding |-> padding,
                   image |-> to_image(text2img, "white", padding)]
    /\ UNCHANGED <<default_fallback_fonts, text2img, nwrap, image>>

\* text2img.wrap(width) on a layout that from_text has built
WrapLayout == call.op # "layout_args" /\ Wrap

NextRender == FromTextStyled \/ WrapLayout \/ Measure \/ ToImage

SpecRender == InitLayout /\ [][NextRender]_vars

RenderChars == {"A", "W", "\n"}
MaxRenderLen == 2
MaxWidths == {0, 3}

\* img = text2image(text, "white", (1, 2), max_width, fontsize=1,
\*                  fontname=fontname, fallback_fonts=fallback_fonts)
Text2ImageCall ==
    \E text \in SeqsUpTo(RenderChars, MaxRenderLen), max_width \in MaxWidths,
       fontname \in FontNames, fallback_fonts \in FallbackLists :
        \E r \in {text2image(text, "white", <<1, 2>>, max_width,
                              [fontsize |-> 1, fill |-> S_black, spacing |-> 6,
                               align |-> S_left, fontname |-> fontname],
                              [arg |-> fallback_fonts, dflt |-> default_fallback_fonts])} :
           /\ Len(r.fonts.dflt) <= MaxFallbackLen
           /\ default_fallback_fonts' = r.fonts.dflt
           /\ call' = [op |-> "text2image", text |-> text, max_width |-> max_width,
                       fontname |-> fontname, fallback_fonts |-> fallback_fonts,
                       lines |-> r.text2img.lines, image |-> r.image]
           /\ UNCHANGED <<text2img, nwrap, image>>

NextHistory == Text2ImageCall \/ GetProperFont

SpecHistory == Init /\ [][NextHistory]_vars

Next == FromText \/ FromTextGlyphs \/ GetProperFont \/ FromBBCode \/ Wrap \/ DrawText
            \/ Text2ImageCall \/ FromTextStyled \/ Measure \/ ToImage

Spec == Init /\ [][Next]_vars

----------------------------------------------------------------------------
(* Properties of Line.wrap and Text2Image.wrap, stated on the last wrap call: *)
(* call.src are the lines before the call, call.parts[i] the Lines yielded    *)
(* for call.src[i], text2img.lines the lines after the call.                  *)

CharsOf(lines) == Flatten([j \in 1..Len(lines) |-> lines[j].chars])

\* every character of the line is at most width wide
FitsCharwise(line, width) ==
    \A k \in 1..Len(line.chars) : line.chars[k].width <= width * MetricDen

\* number of characters in the first j lines
RECURSIVE CharCount(_, _)
CharCount(lines, j) == IF j = 0 THEN 0 ELSE Len(lines[j].chars) + CharCount(lines, j - 1)

\* C1: when maxWidth is at least the width of the widest character of a
\* non-empty Line, every Line that Line.wrap yields for it is at most maxWidth
\* wide and the yielded Lines' characters, concatenated in order, are the
\* Line's characters; Text2Image.wrap keeps the per-line results in order.
C1_WrapFitsAndKeepsChars ==
    call.op = "wrap" =>
        /\ \A i \in 1..Len(call.src) :
            (call.src[i].chars # <<>> /\ FitsCharwise(call.src[i], call.width)) =>
                /\ \A j \in 1..Len(call.parts[i]) :
                       LineWidth(call.parts[i][j]) <= call.width * MetricDen
                /\ CharsOf(call.parts[i]) = call.src[i].chars
        /\ (\A i \in 1..Len(call.src) : FitsCharwise(call.src[i], call.width)) =>
                /\ \A j \in 1..Len(text2img.lines) :
                       LineWidth(text2img.lines[j]) <= call.width * MetricDen
                /\ CharsOf(text2img.lines) = CharsOf(call.src)

\* a wrap, of a layout of several lines, that split a line of two or more
\* characters none of which is wider than maxWidth
C1_Witness ==
    /\ call.op = "wrap"
    /\ Len(call.src) >= 2
    /\ \E i \in 1..Len(call.src) :
        /\ Len(call.src[i].chars) >= 2
        /\ FitsCharwise(call.src[i], call.width)
        /\ Len(call.parts[i]) >= 2

\* C7: a character wider than maxWidth is, unchanged, the only character of
\* the yielded Line that holds its position, wherever it stands in the source
\* Line.
C7_WideCharAlone ==
    call.op = "wrap" =>
        \A i \in 1..Len(call.src) : \A k \in 1..Len(call.src[i].chars) :
            call.src[i].chars[k].width > call.width * MetricDen =>
                \E j \in 1..Len(call.parts[i]) :
                    /\ CharCount(call.parts[i], j - 1) = k - 1
                    /\ call.parts[i][j].chars = <<call.src[i].chars[k]>>

\* a wrap of a three-character line whose first and last characters fit and
\* whose middle character is wider than maxWidth
C7_Witness ==
    /\ call.op = "wrap"
    /\ \E i \in 1..Len(call.src) :
        /\ Len(call.src[i].chars) = 3
        /\ call.src[i].chars[1].width <= call.width * MetricDen
        /\ call.src[i].chars[2].width > call.width * MetricDen
        /\ call.src[i].chars[3].width <= call.width * MetricDen

\* C8: a Line without characters has width, height, ascent and descent 0 and
\* Line.wrap yields exactly one Line for it, which has no characters.
C8_EmptyLine ==
    call.op = "wrap" =>
        \A i \in 1..Len(call.src) :
            call.src[i].chars = <<>> =>
                /\ LineWidth(call.src[i]) = 0
                /\ LineHeight(call.src[i]) = 0
                /\ LineAscent(call.src[i]) = 0
                /\ LineDescent(call.src[i]) = 0
                /\ Len(call.parts[i]) = 1
                /\ call.parts[i][1].chars = <<>>

\* a wrap of a layout that holds an empty Line next to a non-empty one
C8_Witness ==
    /\ call.op = "wrap"
    /\ \E i, j \in 1..Len(call.src) :
        call.src[i].chars = <<>> /\ call.src[j].chars # <<>>

----------------------------------------------------------------------------
(* Properties of get_proper_font, stated on the last call *)

\* the fonts the caller asked for, in order: the preferred font of this call,
\* then the caller's fallback list or, without one, the configured list
AskedFonts(fontname, fallback_fonts) ==
    (IF fontname # S_empty THEN <<fontname>> ELSE <<>>)
        \o (IF fallback_fonts # <<>> THEN fallback_fonts ELSE DefaultFallbackFonts)

Covering(order, char, weight) ==
    {i \in 1..Len(order) : has_char(Find(order[i], "normal", weight), char)}

\* C2: the font get_proper_font returns is the first font, in the order
\* [preferred font of this call] + fallback list, that has the character,
\* whatever preferred fonts earlier calls were given.
C2_FirstCoveringFont ==
    call.op = "get_proper_font" =>
        LET order == AskedFonts(call.fontname, call.fallback_fonts)
            cov == Covering(order, call.char, call.weight)
        IN cov # {} => call.font = Find(order[SetMin(cov)], "normal", call.weight)

\* C9: when no font of [preferred] + fallback list has the character,
\* get_proper_font returns the first font of that list, and from_text builds
\* one glyph for every character that is not a newline.
C9_UncoveredFirstFont ==
    /\ call.op = "get_proper_font" =>
        LET order == AskedFonts(call.fontname, call.fallback_fonts)
        IN Covering(order, call.char, call.weight) = {} =>
               call.font = Find(order[1], "normal", call.weight)
    /\ call.op = "from_text" =>
        Len(CharsOf(text2img.lines))
            = Cardinality({i \in 1..Len(call.text) : call.text[i] # "\n"})

----------------------------------------------------------------------------
(* Properties of from_bbcode_text, stated on the last call: call.doc is the   *)
(* document, call.text its text, call.kept the characters the loop kept with  *)
(* the values it resolved for them.                                           *)

Env(align, color, font, size, bold) ==
    [align |-> align, color |-> color, font |-> font, size |-> size, bold |-> bold]

Enter(env, k, v) ==
    CASE k = "align" -> [env EXCEPT !.align = v]
      [] k = "color" -> [env EXCEPT !.color = v]
      [] k = "font" -> [env EXCEPT !.font = v]
      [] k = "size" -> [env EXCEPT !.size = ParseInt(v)]
      [] k = "b" -> [env EXCEPT !.bold = TRUE]

\* what a document means: its content characters in order, each with its
\* offset in the text and the values of the innermost enclosing tags
RECURSIVE Meaning(_, _, _)
Meaning(items, env, offset) ==
    IF items = <<>> THEN <<>>
    ELSE LET With_it(it) ==
             (IF it.t = "ch"
              THEN << [index |-> offset, char |-> it.c, align |-> env.align,
                       color |-> env.color, font |-> env.font,
                       size |-> env.size, bold |-> env.bold] >>
              ELSE IF it.t = "span"
              THEN Meaning(it.body, Enter(env, it.k, it.v),
                           offset + Len(OpenTag(it.k, it.v)))
              ELSE <<>>)
             \o Meaning(Tail(items), env, offset + Len(Serialize(<<it>>)))
         IN With_it(Head(items))

DocMeaning == Meaning(call.doc, Env(call.align, S_black, S_empty, 1, FALSE), 0)

Range(s) == {s[i] : i \in 1..Len(s)}

IsWellFormed(doc) == \A i \in 1..Len(doc) : doc[i].t # "open"

\* C3: for well formed markup the characters kept are the content characters
\* of the document, in order: no character of a tag delimiter is kept and no
\* content character is dropped; the glyphs are the kept characters that are
\* not newlines.
C3_DelimitersRemoved ==
    (call.op = "from_bbcode_text" /\ IsWellFormed(call.doc)) =>
        \A meant \in {[i \in 1..Len(DocMeaning) |-> DocMeaning[i].char]} :
            /\ [i \in 1..Len(call.kept) |-> call.kept[i].char] = meant
            /\ [i \in 1..Len(CharsOf(text2img.lines)) |-> CharsOf(text2img.lines)[i].char]
                   = SelectSeq(meant, LAMBDA c : c # "\n")

\* C4: every kept content character resolves, for each of the five kinds, to
\* the value of the innermost enclosing tag of that kind, or to the default
\* when no tag of that kind encloses it.
C4_InnermostTagWins ==
    (call.op = "from_bbcode_text" /\ IsWellFormed(call.doc)) =>
        \A i \in 1..Len(call.kept) : \A meant \in Range(DocMeaning) :
            call.kept[i].index = meant.index => call.kept[i] = meant

KeptAlignChanges ==
    {i \in 1..(Len(call.kept) - 1) : call.kept[i].align # call.kept[i + 1].align}

\* C5: in a text without newlines the Lines are split exactly where the
\* resolved alignment changes between two consecutive kept characters: there
\* is one Line more than there are such changes and no Line is empty.
C5_OneBreakPerAlignChange ==
    (/\ call.op = "from_bbcode_text"
     /\ call.kept # <<>>
     /\ \A i \in 1..Len(call.kept) : call.kept[i].char # "\n") =>
        /\ Len(text2img.lines) = 1 + Cardinality(KeptAlignChanges)
        /\ \A i \in 1..Len(text2img.lines) : text2img.lines[i].chars # <<>>

IsDangling(doc) ==
    /\ Cardinality({i \in 1..Len(doc) : doc[i].t = "open"}) = 1
    /\ \A i \in 1..Len(doc) : doc[i].t # "span"

\* C6: for a text with one opening tag that is never closed, and no other
\* tag, every character is kept with the default alignment, colour, font and
\* size and not bold, and every character that is not a newline is a glyph.
C6_DanglingTagLiteral ==
    (call.op = "from_bbcode_text" /\ IsDangling(call.doc)) =>
        /\ Len(call.kept) = Len(call.text)
        /\ \A i \in 1..Len(call.kept) :
               call.kept[i] = [index |-> i - 1, char |-> call.text[i], align |-> call.align,
                               color |-> S_black, font |-> S_empty, size |-> 1,
                               bold |-> FALSE]
        /\ [i \in 1..Len(CharsOf(text2img.lines)) |-> CharsOf(text2img.lines)[i].char]
               = SelectSeq(call.text, LAMBDA c : c # "\n")
        /\ \A i \in 1..Len(CharsOf(text2img.lines)) :
               LET g == CharsOf(text2img.lines)[i]
               IN g.fontsize = 1 /\ g.fill = S_black /\ ~IsBoldPath(g.font.path)
        /\ \A i \in 1..Len(text2img.lines) : text2img.lines[i].align = call.align

\* a text that starts with a content character, goes on with a dangling
\* opening tag and ends with a content character, all of them glyphs
C6_Witness ==
    /\ call.op = "from_bbcode_text"
    /\ Len(call.doc) = 3
    /\ call.doc[1] = Ch("A") /\ call.doc[2].t = "open" /\ call.doc[3] = Ch("B")
    /\ Len(text2img.lines) = 1
    /\ Len(text2img.lines[1].chars) = Len(call.text)

----------------------------------------------------------------------------
(* Properties of BuildImage.draw_text, stated on the last call *)

\* the height of the text laid out at the font size, wrapped to the region
\* width when it is wider
LaidOutHeight(a, fontsize, dflt) ==
    LET With_t(t) ==
             IF T2IWidth(t) > (a.xy[3] - a.xy[1]) * MetricDen
             THEN T2IHeight(T2IWrap(t, a.xy[3] - a.xy[1]))
             ELSE T2IHeight(t)
    IN With_t(from_text(a.text, fontsize, a.bold, a.fill, a.spacing, a.lines_align,
                   Trunc(fontsize * a.stroke_ratio[1], a.stroke_ratio[2]),
                   a.fontname, [arg |-> a.fallback_fonts, dflt |-> dflt]).t2i)

\* C10: with min_fontsize <= max_fontsize draw_text raises exactly when the
\* laid out text is higher than the region at every font size of
\* min_fontsize..max_fontsize, and when it raises the image is as it was.
C10_RaisesIffNoSizeFits ==
    (call.op = "draw_text" /\ call.args.min_fontsize <= call.args.max_fontsize) =>
        /\ call.result.raised <=>
              \A fontsize \in call.args.min_fontsize..call.args.max_fontsize :
                  LaidOutHeight(call.args, fontsize, call.fonts_before)
                      > (call.args.xy[4] - call.args.xy[2]) * MetricDen
        /\ call.result.raised => image = call.image_before

\* a call that raised after trying several sizes, the last of them with a
\* wrapped layout
C10_Witness ==
    /\ call.op = "draw_text"
    /\ call.args.min_fontsize < call.args.max_fontsize
    /\ call.result.raised
    /\ Len(call.result.tried) >= 2
    /\ Len(call.args.text) >= 2

\* the fonts and lines a text2image call selects and the bitmap it returns,
\* made first thing with the configured fallback list
FreshRender(c) ==
    text2image(c.text, "white", <<1, 2>>, c.max_width,
               [fontsize |-> 1, fill |-> S_black, spacing |-> 6,
                align |-> S_left, fontname |-> c.fontname],
               [arg |-> c.fallback_fonts, dflt |-> DefaultFallbackFonts])

(* C11: rendering is deterministic and history independent: a text2image    *)
(* call selects the fonts and lines and returns the bitmap that the call    *)
(* with the same arguments does when it is the first rendering call made,   *)
(* whatever rendering calls with other preferred fonts or fallback lists    *)
(* came before it.                                                          *)
C11_HistoryIndependent ==
    call.op = "text2image" =>
        \A fresh \in {FreshRender(call)} :
            /\ call.lines = fresh.text2img.lines
            /\ call.image = fresh.image

\* the image a to_image call returned is that of a layout without lines
NoLines == call.op = "to_image" /\ text2img.lines = <<>>

(* C12, as stated: the surface to_image returns has size exactly            *)
(* (width + 2 * padding.x, height + 2 * padding.y); a text of length zero   *)
(* gives no lines, width = height = 0 and a surface of                      *)
(* (2 * padding.x, 2 * padding.y).                                          *)
C12_SurfaceSizeExact ==
    /\ call.op = "to_image" =>
          /\ call.image.size[1] * MetricDen
                = T2IWidth(text2img) + 2 * call.padding[1] * MetricDen
          /\ call.image.size[2] * MetricDen
                = T2IHeight(text2img) + 2 * call.padding[2] * MetricDen
    /\ (call.op = "from_text_styled" /\ call.text = <<>>) => text2img.lines = <<>>
    /\ NoLines => /\ T2IWidth(text2img) = 0 /\ T2IHeight(text2img) = 0
                  /\ call.image.size = <<2 * call.padding[1], 2 * call.padding[2]>>

\* n is the whole part of the non-negative q / MetricDen
WholePart(n, q) == n * MetricDen <= q /\ q < (n + 1) * MetricDen

(* C12, amended: the surface to_image returns has size                      *)
(* (int(width + 2 * padding.x), int(height + 2 * padding.y)), the whole     *)
(* parts of the sums, which are the sums themselves when width and height   *)
(* are whole numbers; a text of length zero gives no lines, width =         *)
(* height = 0 and a surface of (2 * padding.x, 2 * padding.y).              *)
C12_SurfaceSizeTruncated ==
    /\ call.op = "to_image" =>
          /\ WholePart(call.image.size[1],
                       T2IWidth(text2img) + 2 * call.padding[1] * MetricDen)
          /\ WholePart(call.image.size[2],
                       T2IHeight(text2img) + 2 * call.padding[2] * MetricDen)
    /\ (call.op = "from_text_styled" /\ call.text = <<>>) => text2img.lines = <<>>
    /\ NoLines => /\ T2IWidth(text2img) = 0 /\ T2IHeight(text2img) = 0
                  /\ call.image.size = <<2 * call.padding[1], 2 * call.padding[2]>>

\* a surface for a layout whose width and height are not whole numbers
C12_Witness ==
    /\ call.op = "to_image"
    /\ call.padding = <<1, 2>>
    /\ T2IWidth(text2img) % MetricDen # 0
    /\ T2IHeight(text2img) % MetricDen # 0
    /\ Len(text2img.lines) > 1

\* the glyphs of the current layout
Glyphs == {text2img.lines[i].chars[k] :
             <<i, k>> \in {p \in (1..Len(text2img.lines)) \X (1..(MaxTextLen + 1)) :
                              p[2] <= Len(text2img.lines[p[1]].chars)}}

\* the four metrics of glyph c are those PIL gives at the size `at`, times
\* num / den
MetricsAre(c, at, num, den) ==
    \A pil \in {load_font(c.font, at)} :
        /\ c.pilfont = pil
        /\ c.ascent * den = getmetrics(pil)[1] * num * MetricDen
        /\ c.descent * den = getmetrics(pil)[2] * num * MetricDen
        /\ c.width * den = getsize(pil, c.char, c.stroke_width)[1] * num * MetricDen
        /\ c.height * den = getsize(pil, c.char, c.stroke_width)[2] * num * MetricDen

(* C13: a glyph of a font with a fixed size is loaded at that size, never   *)
(* at the requested font size, and its ascent, descent, width and height    *)
(* are the font's metrics at the fixed size times fontSize / fixedSize; a   *)
(* glyph of any other font is loaded at the requested size and its metrics  *)
(* are not scaled.                                                          *)
C13_FixedSizeScaled ==
    /\ \A c \in Glyphs :
          IF c.font.valid_size # 0
          THEN MetricsAre(c, c.font.valid_size, c.fontsize, c.font.valid_size)
          ELSE MetricsAre(c, c.fontsize, 1, 1)
    /\ call.op = "from_text_styled" =>
          \A c \in Glyphs : c.fontsize = call.fontsize /\ c.stroke_width = call.stroke_width

\* a layout of size 2 with a stroked glyph of a fixed-size font next to one
\* of an ordinary font
C13_Witness ==
    /\ call.op = "from_text_styled"
    /\ call.fontsize = 2
    /\ \E c, d \in Glyphs : /\ c.font.valid_size = NotoValidSize
                              /\ c.stroke_width = 1
                              /\ d.font.valid_size = 0

\* what the lines before line i take: their ascents and the spacing after
\* each of them
RECURSIVE LineTop(_, _)
LineTop(t2i, i) ==
    IF i <= 1 THEN 0
    ELSE LineTop(t2i, i - 1) + LineAscent(t2i.lines[i - 1]) + t2i.spacing * MetricDen

(* C14: width is the largest width of a line and height is the sum of the   *)
(* lines' ascents plus spacing * (number of lines - 1) plus the descent of  *)
(* the last line; both are 0 when there are no lines. This holds of the     *)
(* current lines after any sequence of wrap calls.                          *)
C14_WidthHeightDerived ==
    call.op = "measure" =>
        \A n \in {Len(text2img.lines)} :
            IF n = 0 THEN call.width = 0 /\ call.height = 0
            ELSE /\ \E i \in 1..n : call.width = LineWidth(text2img.lines[i])
                 /\ \A i \in 1..n : call.width >= LineWidth(text2img.lines[i])
                 /\ call.height = LineTop(text2img, n)
                                    + LineAscent(text2img.lines[n])
                                    + LineDescent(text2img.lines[n])

\* width and height read after two wraps left lines of different widths, the
\* last of them with a descent
C14_Witness ==
    /\ call.op = "measure"
    /\ nwrap = 2
    /\ Len(text2img.lines) >= 3
    /\ LineDescent(text2img.lines[Len(text2img.lines)]) > 0
    /\ \E i, j \in 1..Len(text2img.lines) :
          LineWidth(text2img.lines[i]) < LineWidth(text2img.lines[j])

\* the number of glyphs on the lines before line i
RECURSIVE GlyphsBefore(_)
GlyphsBefore(i) ==
    IF i <= 1 THEN 0 ELSE GlyphsBefore(i - 1) + Len(text2img.lines[i - 1].chars)

\* what to_image drew for glyph k of line i
DrawnAt(i, k) == call.image.drawn[GlyphsBefore(i) + k]

\* the places <<i, k>> of the glyphs of the current layout
Places == {p \in (1..Len(text2img.lines)) \X (1..(MaxTextLen + 1)) :
              p[2] <= Len(text2img.lines[p[1]].chars)}

\* lineTop of line i in a to_image call, as a multiple of 1 / MetricDen
TopOf(i) == call.padding[2] * MetricDen + LineTop(text2img, i)

\* lineTop + line.ascent - char.ascent for glyph k of line i
ExactY(i, k) ==
    TopOf(i) + LineAscent(text2img.lines[i]) - text2img.lines[i].chars[k].ascent

\* the last line's baseline plus its descent is padding.y + height
BottomIsHeight ==
    \A n \in {Len(text2img.lines)} :
        n > 0 => TopOf(n) + LineAscent(text2img.lines[n]) + LineDescent(text2img.lines[n])
                    = call.padding[2] * MetricDen + T2IHeight(text2img)

(* C15, as stated: to_image places every character of a line at the         *)
(* vertical position lineTop + line.ascent - char.ascent, so the characters  *)
(* of a line share the baseline lineTop + line.ascent and none starts above  *)
(* lineTop; lineTop starts at padding.y and advances by line.ascent +        *)
(* spacing, so the last baseline plus the last descent is padding.y + height.*)
C15_VerticalExact ==
    call.op = "to_image" =>
        /\ Len(call.image.drawn) = Cardinality(Places)
        /\ \A p \in Places :
              /\ DrawnAt(p[1], p[2]).char = text2img.lines[p[1]].chars[p[2]].char
              /\ DrawnAt(p[1], p[2]).pos[2] * MetricDen = ExactY(p[1], p[2])
              /\ DrawnAt(p[1], p[2]).pos[2] * MetricDen >= TopOf(p[1])
        /\ BottomIsHeight

(* C15, amended: to_image places every character of a line at the whole      *)
(* pixel int(lineTop + line.ascent - char.ascent), less than one pixel above *)
(* lineTop + line.ascent - char.ascent and exactly there when that is a      *)
(* whole number, so the characters of a line share the baseline lineTop +    *)
(* line.ascent to within a pixel and none starts a pixel or more above       *)
(* lineTop; lineTop starts at padding.y and advances by line.ascent +        *)
(* spacing, so the last baseline plus the last descent is padding.y + height.*)
C15_VerticalTruncated ==
    call.op = "to_image" =>
        /\ Len(call.image.drawn) = Cardinality(Places)
        /\ \A p \in Places :
              /\ DrawnAt(p[1], p[2]).char = text2img.lines[p[1]].chars[p[2]].char
              /\ WholePart(DrawnAt(p[1], p[2]).pos[2], ExactY(p[1], p[2]))
              /\ DrawnAt(p[1], p[2]).pos[2] * MetricDen > TopOf(p[1]) - MetricDen
        /\ BottomIsHeight

\* an image with a second line whose top is not a whole number and on which
\* glyphs of different ascents stand
C15_Witness ==
    /\ call.op = "to_image"
    /\ call.padding = <<1, 2>>
    /\ \E p, q \in Places :
          /\ p[1] = q[1] /\ p[1] > 1
          /\ TopOf(p[1]) % MetricDen # 0
          /\ ExactY(p[1], p[2]) > ExactY(q[1], q[2])
          /\ DrawnAt(p[1], p[2]).pos[2] > DrawnAt(q[1], q[2]).pos[2]

\* twice the width of the glyphs of line i before glyph k
RECURSIVE Advance2(_, _)
Advance2(i, k) ==
    IF k <= 1 THEN 0 ELSE Advance2(i, k - 1) + 2 * text2img.lines[i].chars[k - 1].width

\* twice the room line i leaves: totalWidth - lineWidth
Room2(i) == 2 * (T2IWidth(text2img) - LineWidth(text2img.lines[i]))

\* twice the x at which a to_image call starts glyph k of line i, as a
\* multiple of 1 / MetricDen: the start of the line by its alignment, then
\* the widths of the glyphs before
ExactX2(i, k) ==
    2 * call.padding[1] * MetricDen
      + (IF text2img.lines[i].align = S_left THEN 0
         ELSE IF text2img.lines[i].align = S_center THEN Room2(i) \div 2
         ELSE Room2(i))
      + Advance2(i, k)

\* glyph k of line i is drawn inside [padding.x, padding.x + totalWidth]
DrawnInside(i, k) ==
    /\ DrawnAt(i, k).pos[1] >= call.padding[1]
    /\ DrawnAt(i, k).pos[1] * MetricDen + text2img.lines[i].chars[k].width
          <= call.padding[1] * MetricDen + T2IWidth(text2img)

(* C16, as stated: the horizontal start of a line is padding.x when left     *)
(* aligned, padding.x + (totalWidth - lineWidth) / 2 when centered and       *)
(* padding.x + (totalWidth - lineWidth) when right aligned; each character   *)
(* starts where the previous one ends; every line lies inside                *)
(* [padding.x, padding.x + totalWidth].                                      *)
C16_HorizontalExact ==
    call.op = "to_image" =>
        \A p \in Places :
            /\ DrawnAt(p[1], p[2]).pos[1] * 2 * MetricDen = ExactX2(p[1], p[2])
            /\ p[2] > 1 =>
                  DrawnAt(p[1], p[2]).pos[1] * MetricDen
                    = DrawnAt(p[1], p[2] - 1).pos[1] * MetricDen
                        + text2img.lines[p[1]].chars[p[2] - 1].width
            /\ DrawnInside(p[1], p[2])

\* n is the whole part of the non-negative q / (2 * MetricDen)
WholePart2(n, q) == n * 2 * MetricDen <= q /\ q < (n + 1) * 2 * MetricDen

(* C16, amended: x starts at padding.x when the line is left aligned, at     *)
(* padding.x + (totalWidth - lineWidth) / 2 when centered and at padding.x + *)
(* (totalWidth - lineWidth) when right aligned, and advances by the width of *)
(* each character; a character is drawn at the whole pixel int(x), so it     *)
(* starts less than a pixel away from where the previous one ends; every     *)
(* line lies inside [padding.x, padding.x + totalWidth].                     *)
C16_HorizontalTruncated ==
    call.op = "to_image" =>
        \A p \in Places :
            /\ WholePart2(DrawnAt(p[1], p[2]).pos[1], ExactX2(p[1], p[2]))
            /\ p[2] > 1 =>
                  \A gap \in {DrawnAt(p[1], p[2]).pos[1] * MetricDen
                                - DrawnAt(p[1], p[2] - 1).pos[1] * MetricDen
                                - text2img.lines[p[1]].chars[p[2] - 1].width} :
                      -MetricDen < gap /\ gap < MetricDen
            /\ DrawnInside(p[1], p[2])

\* an image with a centered line that leaves room, a glyph of which starts
\* at an x that is not a whole number
C16_Witness ==
    /\ call.op = "to_image"
    /\ call.padding = <<1, 2>>
    /\ \E p \in Places :
          /\ p[2] > 1
          /\ text2img.lines[p[1]].align = S_center
          /\ Room2(p[1]) > 0
          /\ ExactX2(p[1], p[2]) % (2 * MetricDen) # 0
          /\ DrawnAt(p[1], p[2]).pos[1] > call.padding[1] + 1

\* the Lines yielded for line i of the source of the last wrap call
Yielded(i) == call.parts[i]

(* C17: Line.wrap is greedy: it yields the candidate, the characters before  *)
(* the next one, exactly when the candidate with the next character is       *)
(* wider than maxWidth. So every yielded Line but the last is maximal (its   *)
(* width plus the width of the first character of the Line after it exceeds  *)
(* maxWidth), no Line is cut while it still fits (a yielded Line of two or   *)
(* more characters is at most maxWidth wide, and only the first yielded Line *)
(* can be empty), every yielded Line has the alignment of the source Line,   *)
(* and the yielded characters are those of the source Line in order.         *)
C17_WrapGreedy ==
    call.op = "wrap" =>
        \A i \in 1..Len(call.src) :
            /\ \A j \in 1..(Len(Yielded(i)) - 1) :
                  /\ Yielded(i)[j + 1].chars # <<>>
                  /\ LineWidth(Yielded(i)[j]) + Yielded(i)[j + 1].chars[1].width
                        > call.width * MetricDen
            /\ \A j \in 1..Len(Yielded(i)) :
                  /\ Len(Yielded(i)[j].chars) >= 2 =>
                        LineWidth(Yielded(i)[j]) <= call.width * MetricDen
                  /\ Yielded(i)[j].align = call.src[i].align
            /\ CharsOf(Yielded(i)) = call.src[i].chars

\* a wrap of a right-aligned line of three characters that yields a Line of
\* two characters, exactly maxWidth wide, and then a Line with the third
C17_Witness ==
    /\ call.op = "wrap"
    /\ \E i \in 1..Len(call.src) :
          /\ call.src[i].align = S_right
          /\ Len(call.src[i].chars) = 3
          /\ Len(Yielded(i)) = 2
          /\ Len(Yielded(i)[1].chars) = 2
          /\ LineWidth(Yielded(i)[1]) = call.width * MetricDen

\* the last two calls were wraps at the same width
WrappedTwice == call.op = "wrap" /\ call.prev = call.width

\* the second of two wraps left what the first had left: the lines with
\* their characters and alignments, and so the width and the height
SameAsOnce ==
    /\ text2img.lines = call.src
    /\ T2IWidth(text2img) = T2IWidth(Text2Image(call.src, text2img.spacing))
    /\ T2IHeight(text2img) = T2IHeight(Text2Image(call.src, text2img.spacing))

(* C18, as stated: Text2Image.wrap is idempotent at a fixed width, also at   *)
(* one smaller than the width of some character: wrapping twice at the same  *)
(* width leaves the lines, characters, alignments, width and height that     *)
(* wrapping once leaves.                                                     *)
C18_WrapIdempotent == WrappedTwice => SameAsOnce

(* C18, amended: Text2Image.wrap is idempotent at a fixed width that is at   *)
(* least the width of every character: wrapping twice at that width leaves   *)
(* the lines, characters, alignments, width and height that wrapping once    *)
(* leaves.                                                                   *)
C18_WrapIdempotentWhenCharsFit ==
    (WrappedTwice /\ \A i \in 1..Len(call.src) : FitsCharwise(call.src[i], call.width))
        => SameAsOnce

\* a second wrap at the width of a first one that had left several lines,
\* one of them full, with every character fitting
C18_Witness ==
    /\ WrappedTwice
    /\ nwrap = 2
    /\ \A i \in 1..Len(call.src) : FitsCharwise(call.src[i], call.width)
    /\ \E i \in 1..(Len(call.src) - 1) :
          /\ Len(call.src[i].chars) >= 2
          /\ call.src[i + 1].chars # <<>>
          /\ LineWidth(call.src[i]) + call.src[i + 1].chars[1].width
                > call.width * MetricDen

\* the text laid out at the font size is not higher than the region
FitsAt(fontsize) ==
    LaidOutHeight(call.args, fontsize, call.fonts_before)
        <= (call.args.xy[4] - call.args.xy[2]) * MetricDen

(* C19: draw_text terminates: it lays the text out once per size at          *)
(* max_fontsize, max_fontsize - 1, ..., stops at the first size that fits    *)
(* and never goes below min_fontsize. With min_fontsize <= max_fontsize the  *)
(* size used on success is in min_fontsize..max_fontsize and is the largest  *)
(* size of that range that fits, and the text is pasted exactly once.        *)
C19_LargestFittingSize ==
    call.op = "draw_text" =>
        \A tried \in {call.result.tried} :
            /\ Len(tried) >= 1 /\ tried[1] = call.args.max_fontsize
            /\ \A k \in 2..Len(tried) :
                  tried[k] = tried[k - 1] - 1 /\ tried[k] >= call.args.min_fontsize
            /\ \A k \in 1..(Len(tried) - 1) : ~FitsAt(tried[k])
            /\ IF call.result.raised
               THEN ~FitsAt(tried[Len(tried)]) /\ image = call.image_before
               ELSE /\ call.result.fontsize = tried[Len(tried)]
                    /\ FitsAt(call.result.fontsize)
                    /\ call.args.min_fontsize <= call.args.max_fontsize =>
                          /\ call.result.fontsize \in
                                call.args.min_fontsize..call.args.max_fontsize
                          /\ \A f \in (call.result.fontsize + 1)..call.args.max_fontsize :
                                ~FitsAt(f)
                    /\ Len(image) = Len(call.image_before) + 1
                    /\ SubSeq(image, 1, Len(call.image_before)) = call.image_before
                    /\ image[Len(image)].img
                          = to_image(call.result.text2img, "", <<0, 0>>)

\* a call that pasted the text at min_fontsize after two larger sizes did
\* not fit
C19_Witness ==
    /\ call.op = "draw_text"
    /\ ~call.result.raised
    /\ Len(call.result.tried) = 3
    /\ call.result.fontsize = call.args.min_fontsize
    /\ Len(call.args.text) >= 2

====
